---- MODULE Spec2Model ----
(***************************************************************************)
(* Model of src/main.py: the web-content ingestion pipeline                *)
(* (scrape -> chunk -> embed -> batched upsert) of ingest_data, with its   *)
(* helpers chunk_text, scrape_with_firecrawl and generate_embedding.       *)
(*                                                                         *)
(* Text is a sequence of one-character strings.  The external services     *)
(* (Firecrawl, Gemini, Pinecone) are nondeterministic: every call may      *)
(* answer with any value of a small set or raise.                          *)
(***************************************************************************)
EXTENDS Integers, Sequences, FiniteSets, TLC

(***************************************************************************)
(* Bounds.  BATCH_SIZE, CHUNK_SIZE and CHUNK_OVERLAP stand for the module  *)
(* constants of main.py lines 20-22 (100, 1000, 50), MAX_PAGES for the     *)
(* environment value of line 17 (10); they are scaled down so that runs    *)
(* with several chunks per page and several batches per run are explored.  *)
(***************************************************************************)
CHUNK_SIZE == 3
CHUNK_OVERLAP == 1
BATCH_SIZE == 2
MAX_PAGES == 2

\* Program constant, with the value of the source (main.py line 23).
EMBEDDING_DIMENSION == 768

INDEX_NAME == "stripe-api"

Min(a, b) == IF a < b THEN a ELSE b

(***************************************************************************)
(* Python string helpers                                                   *)
(***************************************************************************)
Whitespace == {" ", "\n"}

RECURSIVE lstrip(_)
lstrip(s) ==
    IF s = <<>> THEN s
    ELSE IF Head(s) \in Whitespace THEN lstrip(Tail(s)) ELSE s

RECURSIVE rstrip(_)
rstrip(s) ==
    IF s = <<>> THEN s
    ELSE IF s[Len(s)] \in Whitespace THEN rstrip(SubSeq(s, 1, Len(s) - 1)) ELSE s

\* (mutant: only the leading whitespace is removed)
strip_leading_only(s) == lstrip(s)

\* str.strip()
strip(s) == rstrip(lstrip(s))

\* s[start:end] (0-based, end exclusive): a negative bound counts from the
\* end of s, and both bounds are clamped to 0..len(s)
SliceBound(s, b) ==
    IF b < 0 THEN (IF b + Len(s) < 0 THEN 0 ELSE b + Len(s)) ELSE Min(b, Len(s))
Slice(s, start, end) == SubSeq(s, SliceBound(s, start) + 1, SliceBound(s, end))

\* str.startswith(prefix)
startswith(s, prefix) ==
    /\ Len(prefix) <= Len(s)
    /\ SubSeq(s, 1, Len(prefix)) = prefix

(***************************************************************************)
(* chunk_text (main.py 26-46)                                              *)
(***************************************************************************)
\* (mutant: the windows do not overlap)
next_start_no_overlap(start, chunk_size, overlap) == start + chunk_size

\* main.py 44
next_start(start, chunk_size, overlap) == start + (chunk_size - overlap)

RECURSIVE chunk_loop(_, _, _, _, _)
chunk_loop(text, chunk_size, overlap, start, chunks) ==
    IF ~(start < Len(text)) THEN chunks
    ELSE LET end == start + chunk_size
             chunk == strip(Slice(text, start, end))
             chunks2 == IF chunk # <<>> THEN Append(chunks, chunk) ELSE chunks
         IN  chunk_loop(text, chunk_size, overlap,
                        next_start(start, chunk_size, overlap), chunks2)

chunk_text(text, chunk_size, overlap) ==
    IF text = <<>> \/ strip(text) = <<>> THEN <<>>
    ELSE chunk_loop(strip(text), chunk_size, overlap, 0, <<>>)

(***************************************************************************)
(* Optional values: Python's None or a value                               *)
(***************************************************************************)
None == [some |-> FALSE, val |-> <<>>]
Some(v) == [some |-> TRUE, val |-> v]

\* A vector of n floats; the numbers themselves never matter to the code.
Vec(n, x) == [k \in 1..n |-> x]

(***************************************************************************)
(* scrape_with_firecrawl (main.py 49-113)                                  *)
(*                                                                         *)
(* fc is what the Firecrawl service does in this call:                     *)
(*   fc.raises     - the client constructor or the request raises          *)
(*   fc.has_data   - crawl_result is truthy and has the key 'data'         *)
(*   fc.data       - crawl_result['data'], a sequence of raw pages         *)
(*                   [has_markdown, markdown, has_url, url]                *)
(*   fc.has_markdown, fc.markdown - scrape_result is truthy and has the    *)
(*                   key 'markdown'; its value                             *)
(***************************************************************************)
RECURSIVE crawl_results(_, _)
crawl_results(data, url) ==
    IF data = <<>> THEN <<>>
    ELSE LET page == Head(data)
             rest == crawl_results(Tail(data), url)
         IN  IF page.has_markdown /\ page.markdown # <<>>
             THEN <<[url |-> IF page.has_url THEN page.url ELSE url,
                     content |-> page.markdown]>> \o rest
             ELSE rest

scrape_with_firecrawl(url, mode, fc) ==
    IF fc.raises THEN None
    ELSE LET results ==
                 IF mode = "crawl"
                 THEN IF fc.has_data THEN crawl_results(fc.data, url) ELSE <<>>
                 ELSE IF fc.has_markdown
                      THEN <<[url |-> url, content |-> fc.markdown]>>
                      ELSE <<>>
         IN  IF results = <<>> THEN None ELSE Some(results)

(***************************************************************************)
(* generate_embedding (main.py 116-198)                                    *)
(*                                                                         *)
(* svc is what the embedding service does in this call:                    *)
(*   svc.first   - "ok", "TypeError" or "Error": the call that passes      *)
(*                 output_dimensionality                                   *)
(*   svc.second  - "ok" or "Error": the call without it, made only after   *)
(*                 a TypeError                                             *)
(*   svc.body    - the response object:                                    *)
(*       attr_embedding  [has, val]   val is None or a vector              *)
(*       attr_embeddings [has, list]  list of [has_values, values]         *)
(*       dict [is_dict, has_embedding, embedding,                          *)
(*             has_embeddings, embeddings]                                 *)
(***************************************************************************)
extract_vector(response) ==
    IF response.attr_embedding.has
    THEN response.attr_embedding.val
    ELSE IF response.attr_embeddings.has
    THEN IF Len(response.attr_embeddings.list) > 0
         THEN Some(response.attr_embeddings.list[1].values)
         ELSE None
    ELSE IF response.dict.is_dict
    THEN IF response.dict.has_embedding
         THEN Some(response.dict.embedding)
         ELSE IF response.dict.has_embeddings
                 /\ Len(response.dict.embeddings) > 0
              THEN Some(response.dict.embeddings[1])
              ELSE None
    ELSE None

\* (mutant: only the 512 case is rejected)
check_dimension_512_only(vector) ==
    LET actual_dim == Len(vector)
    IN  IF actual_dim = 512 /\ EMBEDDING_DIMENSION = 768 THEN None
        ELSE Some(vector)

check_dimension(vector) ==
    LET actual_dim == Len(vector)
    IN  IF actual_dim = 768 /\ EMBEDDING_DIMENSION = 768 THEN Some(vector)
        ELSE IF actual_dim = 512 /\ EMBEDDING_DIMENSION = 768 THEN None
        ELSE IF actual_dim # EMBEDDING_DIMENSION THEN None
        ELSE Some(vector)

generate_embedding(svc) ==
    IF svc.first = "Error" THEN None
    ELSE IF svc.first = "TypeError" /\ svc.second = "Error" THEN None
    ELSE LET vector == extract_vector(svc.body)
         IN  IF ~vector.some THEN None ELSE check_dimension(vector.val)

(***************************************************************************)
(* Record identifiers (main.py 280-282, 296)                               *)
(*                                                                         *)
(* md5_hexdigest stands for hashlib.md5(..).hexdigest(): 32 hex digits     *)
(* that are a fixed function of the characters hashed (not injective).     *)
(***************************************************************************)
Count(s, c) == Cardinality({k \in 1..Len(s) : s[k] = c})

md5_hexdigest(s) ==
    [k \in 1..32 |-> (Len(s) * k + 7 * Count(s, "s") + 3 * Count(s, "/")) % 16]

url_hash_of(url) == SubSeq(md5_hexdigest(url), 1, 8)

unique_id(url_hash, i) == <<url_hash, "-chunk-", i>>

(***************************************************************************)
(* Inputs: configurations and service behaviours                           *)
(***************************************************************************)
URL_HTTPS == <<"h", "t", "t", "p", "s", ":", "/", "/", "a">>
URL_HTTP == <<"h", "t", "t", "p", ":", "/", "/", "a">>
URL_FTP == <<"f", "t", "p", ":", "/", "/", "a">>
URL_NO_SLASHES == <<"h", "t", "t", "p", ":", "a">>
TargetUrls == {URL_HTTPS, URL_HTTP, URL_FTP, URL_NO_SLASHES}

\* os.environ.get(KEY): unset (None), set but empty, or set
KeyValues == {"None", "", "key"}
\* (mutant: only an unset key counts as missing)
Falsy_unset_only(value) == value = "None"
Falsy(value) == value \in {"None", ""}

CrawlModes == {"single", "crawl"}

Configs ==
    [TARGET_URL : TargetUrls,
     PINECONE_API_KEY : KeyValues,
     GEMINI_API_KEY : KeyValues,
     FIRECRAWL_API_KEY : KeyValues,
     CRAWL_MODE : CrawlModes]

TEXT_ONE == <<"a", "b">>
TEXT_GAP == <<" ", "a", "b", " ", " ", " ", "c", "\n">>
TEXT_WS == <<" ", "\n">>

RawPage(has_markdown, markdown, has_url, url) ==
    [has_markdown |-> has_markdown, markdown |-> markdown,
     has_url |-> has_url, url |-> url]

\* The pages of the crawled site, in the order the crawler reports them.
Site ==
    << RawPage(TRUE, TEXT_WS, TRUE, URL_HTTPS \o <<"/", "w">>),
       RawPage(TRUE, TEXT_ONE, TRUE, URL_HTTPS \o <<"/", "b">>),
       RawPage(TRUE, TEXT_GAP, FALSE, <<>>),
       RawPage(TRUE, <<>>, TRUE, URL_HTTPS \o <<"/", "e">>),
       RawPage(FALSE, <<>>, TRUE, URL_HTTPS \o <<"/", "n">>) >>

Firecrawl(raises, has_data, data, has_markdown, markdown) ==
    [raises |-> raises, has_data |-> has_data, data |-> data,
     has_markdown |-> has_markdown, markdown |-> markdown]

\* What the service may do in one call; a crawl reports at most `limit` pages.
FirecrawlOutcomes(mode, limit) ==
    IF mode = "crawl"
    THEN {Firecrawl(TRUE, FALSE, <<>>, FALSE, <<>>),
          Firecrawl(FALSE, FALSE, <<>>, FALSE, <<>>)}
         \cup {Firecrawl(FALSE, TRUE, SubSeq(Site, w[1], w[2]), FALSE, <<>>) :
                 w \in {v \in (1..Len(Site)) \X (0..Len(Site)) :
                          v[2] >= v[1] - 1 /\ v[2] - v[1] + 1 <= limit}}
    ELSE {Firecrawl(TRUE, FALSE, <<>>, FALSE, <<>>),
          Firecrawl(FALSE, FALSE, <<>>, FALSE, <<>>)}
         \cup {Firecrawl(FALSE, FALSE, <<>>, TRUE, t) :
                 t \in {<<>>, TEXT_WS, TEXT_ONE, TEXT_GAP}}

Body(attr_embedding, attr_embeddings, dict) ==
    [attr_embedding |-> attr_embedding, attr_embeddings |-> attr_embeddings,
     dict |-> dict]
NoAttrEmbedding == [has |-> FALSE, val |-> None]
NoAttrEmbeddings == [has |-> FALSE, list |-> <<>>]
NoDict ==
    [is_dict |-> FALSE, has_embedding |-> FALSE, embedding |-> <<>>,
     has_embeddings |-> FALSE, embeddings |-> <<>>]
BodyDirect(v) == Body([has |-> TRUE, val |-> v], NoAttrEmbeddings, NoDict)
BodyList(embs) == Body(NoAttrEmbedding, [has |-> TRUE, list |-> embs], NoDict)
BodyDictEmbedding(v) ==
    Body(NoAttrEmbedding, NoAttrEmbeddings,
         [is_dict |-> TRUE, has_embedding |-> TRUE, embedding |-> v,
          has_embeddings |-> FALSE, embeddings |-> <<>>])
BodyDictEmbeddings(vs) ==
    Body(NoAttrEmbedding, NoAttrEmbeddings,
         [is_dict |-> TRUE, has_embedding |-> FALSE, embedding |-> <<>>,
          has_embeddings |-> TRUE, embeddings |-> vs])
BodyOther == Body(NoAttrEmbedding, NoAttrEmbeddings, NoDict)
Emb(has_values, values) == [has_values |-> has_values, values |-> values]

Service(first, second, body) == [first |-> first, second |-> second, body |-> body]

\* What the embedding service may do for one chunk of a run.
EmbedOutcomes ==
    {Service("ok", "ok", BodyList(<<Emb(TRUE, Vec(768, 1))>>)),
     Service("TypeError", "ok", BodyDirect(Some(Vec(768, 1)))),
     Service("ok", "ok", BodyDictEmbedding(Vec(512, 1))),
     Service("ok", "ok", BodyList(<<Emb(FALSE, Vec(769, 1))>>)),
     Service("ok", "ok", BodyDictEmbeddings(<<Vec(768, 1)>>)),
     Service("ok", "ok", BodyList(<<>>)),
     Service("ok", "ok", BodyOther),
     Service("Error", "ok", BodyOther),
     Service("TypeError", "Error", BodyOther)}

(***************************************************************************)
(* State                                                                   *)
(***************************************************************************)
VARIABLES
    env,              \* module-level configuration, read once (main.py 11-17)
    pc,               \* position of ingest_data
    scraped_pages,    \* main.py 229
    all_chunks,       \* main.py 235
    i,                \* loop index of enumerate(all_chunks), main.py 284
    vectors_batch,    \* main.py 277
    uploaded_count,   \* main.py 278
    result,           \* the (message, status) pair returned
    calls,            \* calls made to the external services in this run
    remote_indexes,   \* Pinecone: names of the indexes that exist
    store,            \* Pinecone: the records of index INDEX_NAME
    create_requests,  \* Pinecone: the create_index requests received
    chunker,          \* chunk_text run on its own: its arguments and locals
    adapter           \* generate_embedding run on its own: response, result

vars ==
    <<env, pc, scraped_pages, all_chunks, i, vectors_batch, uploaded_count,
      result, calls, remote_indexes, store, create_requests, chunker, adapter>>

\* chunk_text and generate_embedding not being run on their own
ChunkerIdle ==
    [pc |-> "idle", arg |-> <<>>, text |-> <<>>, chunk_size |-> 0,
     overlap |-> 0, start |-> 0, chunks |-> <<>>, steps |-> 0]
AdapterIdle ==
    [pc |-> "idle", svc |-> Service("Error", "ok", BodyOther),
     vector |-> None, why |-> "", result |-> None]

\* One call: the operation, the chunk indices it is about, whether it
\* returned normally (for an embedding: returned a vector to the pipeline)
\* and, for an embedding, whether the service's response held a vector of a
\* length other than the index's dimension
Call(op, idx, ok, bad_dim) ==
    [op |-> op, idx |-> idx, ok |-> ok, bad_dim |-> bad_dim]

Outcome(kind, status, missing, uploaded, total, pages) ==
    [kind |-> kind, status |-> status, missing |-> missing,
     uploaded |-> uploaded, total |-> total, pages |-> pages]
NoResult == Outcome("none", 0, <<>>, 0, 0, 0)
\* (mutant: no except clause, the exception leaves ingest_data and there is
\* no response)
Unexpected_propagates == NoResult

\* the except clause of main.py 327-333
Unexpected == Outcome("Unexpected error", 500, <<>>, 0, 0, 0)

Init ==
    /\ env \in Configs
    /\ pc = "Idle"
    /\ scraped_pages = <<>>
    /\ all_chunks = <<>>
    /\ i = 0
    /\ vectors_batch = <<>>
    /\ uploaded_count = 0
    /\ result = NoResult
    /\ calls = <<>>
    /\ remote_indexes \in {{"other"}, {"other", INDEX_NAME}}
    /\ store = {}
    /\ create_requests = <<>>
    /\ chunker = ChunkerIdle
    /\ adapter = AdapterIdle

(***************************************************************************)
(* ingest_data (main.py 201-333)                                           *)
(***************************************************************************)
\* main.py 207-213: the names of the missing keys, in dictionary order
missing_keys(e) ==
    (IF Falsy(e.PINECONE_API_KEY) THEN <<"PINECONE_API_KEY">> ELSE <<>>)
    \o (IF Falsy(e.GEMINI_API_KEY) THEN <<"GEMINI_API_KEY">> ELSE <<>>)
    \o (IF Falsy(e.FIRECRAWL_API_KEY) THEN <<"FIRECRAWL_API_KEY">> ELSE <<>>)

\* (mutant: any URL that starts with "http" passes)
url_well_formed_http_only(url) == startswith(url, <<"h", "t", "t", "p">>)

\* main.py 221
url_well_formed(url) ==
    \/ startswith(url, <<"h", "t", "t", "p", ":", "/", "/">>)
    \/ startswith(url, <<"h", "t", "t", "p", "s", ":", "/", "/">>)

\* main.py 206-224: validation, before the try block
Validate ==
    /\ pc = "Idle"
    /\ LET missing == missing_keys(env)
       IN  IF missing # <<>>
           THEN /\ result' = Outcome("Missing Environment Variables", 500,
                                     missing, 0, 0, 0)
                /\ pc' = "Failed"
           ELSE IF ~url_well_formed(env.TARGET_URL)
           THEN /\ result' = Outcome("Invalid URL format", 400, <<>>, 0, 0, 0)
                /\ pc' = "Failed"
           ELSE /\ result' = result
                /\ pc' = "Scraping"
    /\ UNCHANGED <<chunker, adapter, create_requests, env, scraped_pages, all_chunks, i, vectors_batch,
                   uploaded_count, calls, remote_indexes, store>>

\* (mutant: the test of the scrape result is missing)
no_pages_unchecked(pages) == FALSE

\* main.py 231: `not scraped_pages` holds of None and of the empty list
no_pages(pages) == ~pages.some \/ pages.val = <<>>

\* main.py 227-232
Scrape ==
    /\ pc = "Scraping"
    /\ \E fc \in FirecrawlOutcomes(env.CRAWL_MODE, MAX_PAGES) :
         LET pages == scrape_with_firecrawl(env.TARGET_URL, env.CRAWL_MODE, fc)
         IN  /\ calls' = Append(calls, Call("scrape", <<>>, ~fc.raises, FALSE))
             /\ IF no_pages(pages)
                THEN /\ result' = Outcome("Failed to scrape content with Firecrawl",
                                          500, <<>>, 0, 0, 0)
                     /\ pc' = "Failed"
                     /\ scraped_pages' = scraped_pages
                ELSE /\ result' = result
                     /\ pc' = "Chunking"
                     /\ scraped_pages' = pages.val
    /\ UNCHANGED <<chunker, adapter, create_requests, env, all_chunks, i, vectors_batch, uploaded_count,
                   remote_indexes, store>>

\* main.py 235-249: the chunks of every page, each tagged with its page's URL
RECURSIVE chunks_of_pages(_)
chunks_of_pages(pages) ==
    IF pages = <<>> THEN <<>>
    ELSE LET page_data == Head(pages)
             chunks == chunk_text(page_data.content, CHUNK_SIZE, CHUNK_OVERLAP)
         IN  [k \in 1..Len(chunks) |->
                 [text |-> chunks[k], source |-> page_data.url]]
             \o chunks_of_pages(Tail(pages))

\* (mutant: empty content is reported as an error)
zero_chunks_outcome_error ==
    Outcome("No text found for processing", 500, <<>>, 0, 0, 0)

\* main.py 254
zero_chunks_outcome ==
    Outcome("No text found for processing", 200, <<>>, 0, 0, 0)

\* main.py 234-254
Chunk ==
    /\ pc = "Chunking"
    /\ all_chunks' = chunks_of_pages(scraped_pages)
    /\ IF all_chunks' = <<>>
       THEN /\ result' = zero_chunks_outcome
            /\ pc' = "Done"
       ELSE /\ result' = result
            /\ pc' = "InitClients"
    /\ UNCHANGED <<chunker, adapter, create_requests, env, scraped_pages, i, vectors_batch, uploaded_count,
                   calls, remote_indexes, store>>

\* main.py 256-258: genai.Client(..) and Pinecone(..)
InitClients ==
    /\ pc = "InitClients"
    /\ \E ok \in BOOLEAN :
         /\ calls' = Append(calls, Call("clients", <<>>, ok, FALSE))
         /\ IF ok
            THEN /\ pc' = "CheckIndex"
                 /\ result' = result
            ELSE /\ pc' = "Failed"
                 /\ result' = Unexpected
    /\ UNCHANGED <<chunker, adapter, create_requests, env, scraped_pages, all_chunks, i, vectors_batch,
                   uploaded_count, remote_indexes, store>>

\* (mutant: the index is created whatever the listing holds)
index_missing_always(existing_indexes) == TRUE

\* main.py 263
index_missing(existing_indexes) == INDEX_NAME \notin existing_indexes

\* main.py 260-263 (and 273, 277-282 when the index exists)
CheckIndex ==
    /\ pc = "CheckIndex"
    /\ \E ok \in BOOLEAN :
         /\ calls' = Append(calls, Call("list_indexes", <<>>, ok, FALSE))
         /\ IF ~ok
            THEN /\ pc' = "Failed"
                 /\ result' = Unexpected
            ELSE /\ result' = result
                 /\ LET existing_indexes == remote_indexes
                    IN  IF index_missing(existing_indexes)
                        THEN pc' = "CreateIndex"
                        ELSE pc' = "Embedding"
    /\ UNCHANGED <<chunker, adapter, create_requests, env, scraped_pages, all_chunks, i, vectors_batch,
                   uploaded_count, remote_indexes, store>>

\* main.py 265-270: the arguments of create_index
create_index_request ==
    [name |-> INDEX_NAME, dimension |-> EMBEDDING_DIMENSION, metric |-> "cosine",
     cloud |-> "aws", region |-> "us-east-1"]

\* main.py 264-273: create_index, then time.sleep(10)
CreateIndex ==
    /\ pc = "CreateIndex"
    /\ \E ok \in BOOLEAN :
         IF ok
         THEN /\ calls' = calls \o <<Call("create_index", <<>>, TRUE, FALSE),
                                     Call("sleep", <<>>, TRUE, FALSE)>>
              /\ remote_indexes' = remote_indexes \cup {INDEX_NAME}
              /\ create_requests' = Append(create_requests, create_index_request)
              /\ pc' = "Embedding"
              /\ result' = result
         ELSE /\ calls' = Append(calls, Call("create_index", <<>>, FALSE, FALSE))
              /\ remote_indexes' = remote_indexes
              /\ create_requests' = create_requests
              /\ pc' = "Failed"
              /\ result' = Unexpected
    /\ UNCHANGED <<chunker, adapter, env, scraped_pages, all_chunks, i, vectors_batch,
                   uploaded_count, store>>

\* main.py 303: text_content[:1000]
metadata_text(text_content) == Slice(text_content, 0, 1000)

\* (mutant: records are numbered by how many were produced before, not by
\* the chunk's index)
make_record_numbered_by_count(url, k, chunk_data, vector) ==
    [id |-> unique_id(url_hash_of(url), uploaded_count + Len(vectors_batch)),
     values |-> vector,
     metadata |-> [text |-> metadata_text(chunk_data.text),
                   source |-> chunk_data.source,
                   chunk_index |-> k]]

\* (mutant: every record names the run's URL as its source)
make_record_source_of_run(url, k, chunk_data, vector) ==
    [id |-> unique_id(url_hash_of(url), k),
     values |-> vector,
     metadata |-> [text |-> metadata_text(chunk_data.text),
                   source |-> url,
                   chunk_index |-> k]]

\* main.py 296-307: the record of chunk i (0-based)
make_record(url, k, chunk_data, vector) ==
    [id |-> unique_id(url_hash_of(url), k),
     values |-> vector,
     metadata |-> [text |-> metadata_text(chunk_data.text),
                   source |-> chunk_data.source,
                   chunk_index |-> k]]

\* The length of the vector the service's response holds, whichever way the
\* response is shaped (-1: it holds none, or the call raised)
response_dim(svc) ==
    IF svc.first = "Error" \/ (svc.first = "TypeError" /\ svc.second = "Error")
    THEN -1
    ELSE IF svc.body.attr_embedding.has /\ svc.body.attr_embedding.val.some
    THEN Len(svc.body.attr_embedding.val.val)
    ELSE IF svc.body.attr_embeddings.has /\ svc.body.attr_embeddings.list # <<>>
    THEN Len(svc.body.attr_embeddings.list[1].values)
    ELSE IF svc.body.dict.is_dict /\ svc.body.dict.has_embedding
    THEN Len(svc.body.dict.embedding)
    ELSE IF svc.body.dict.is_dict /\ svc.body.dict.has_embeddings
            /\ svc.body.dict.embeddings # <<>>
    THEN Len(svc.body.dict.embeddings[1])
    ELSE -1

\* (mutant: off by one in the batch-size test)
batch_full_above(batch) == Len(batch) > BATCH_SIZE

\* main.py 310
batch_full(batch) == Len(batch) >= BATCH_SIZE

\* (mutant: every upload is counted as a full batch)
count_uploaded_full(count, batch) == count + BATCH_SIZE

\* main.py 312, 319
count_uploaded(count, batch) == count + Len(batch)

\* (mutant: a failed embedding raises instead of skipping the chunk)
EmbedChunk_raising ==
    /\ pc = "Embedding"
    /\ i < Len(all_chunks)
    /\ \E svc \in EmbedOutcomes :
         LET chunk_data == all_chunks[i + 1]
             vector == generate_embedding(svc)
         IN  /\ calls' = Append(calls, Call("embed", <<i>>, vector.some,
                                        response_dim(svc) \notin {-1, EMBEDDING_DIMENSION}))
             /\ IF ~vector.some
                THEN /\ vectors_batch' = vectors_batch
                     /\ i' = i
                     /\ pc' = "Failed"
                     /\ result' = Unexpected
                ELSE /\ vectors_batch' =
                          Append(vectors_batch,
                                 make_record(env.TARGET_URL, i, chunk_data, vector.val))
                     /\ result' = result
                     /\ IF batch_full(vectors_batch')
                        THEN /\ pc' = "Upload"
                             /\ i' = i
                        ELSE /\ pc' = pc
                             /\ i' = i + 1
    /\ UNCHANGED <<chunker, adapter, create_requests, env, scraped_pages, all_chunks, uploaded_count,
                   remote_indexes, store>>

\* main.py 284-310: one iteration of the loop, up to the batch-size test
EmbedChunk ==
    /\ pc = "Embedding"
    /\ i < Len(all_chunks)
    /\ \E svc \in EmbedOutcomes :
         LET chunk_data == all_chunks[i + 1]
             vector == generate_embedding(svc)
         IN  /\ calls' = Append(calls, Call("embed", <<i>>, vector.some,
                                        response_dim(svc) \notin {-1, EMBEDDING_DIMENSION}))
             /\ IF ~vector.some
                THEN /\ vectors_batch' = vectors_batch
                     /\ i' = i + 1
                     /\ pc' = pc
                ELSE /\ vectors_batch' =
                          Append(vectors_batch,
                                 make_record(env.TARGET_URL, i, chunk_data, vector.val))
                     /\ IF batch_full(vectors_batch')
                        THEN /\ pc' = "Upload"
                             /\ i' = i
                        ELSE /\ pc' = pc
                             /\ i' = i + 1
    /\ UNCHANGED <<chunker, adapter, create_requests, env, scraped_pages, all_chunks, uploaded_count, result,
                   remote_indexes, store>>

\* Pinecone upsert: insert or overwrite by id
upsert(records, batch) ==
    {r \in records : \A k \in 1..Len(batch) : batch[k].id # r.id}
    \cup {batch[k] : k \in 1..Len(batch)}

batch_indices(batch) == [k \in 1..Len(batch) |-> batch[k].metadata.chunk_index]

\* (mutant: the batch is not cleared after its upload)
BatchUpload_keeping ==
    /\ pc = "Upload"
    /\ \E ok \in BOOLEAN :
         /\ calls' = Append(calls, Call("upsert", batch_indices(vectors_batch), ok, FALSE))
         /\ IF ok
            THEN /\ store' = upsert(store, vectors_batch)
                 /\ uploaded_count' = count_uploaded(uploaded_count, vectors_batch)
                 /\ vectors_batch' = vectors_batch
                 /\ i' = i + 1
                 /\ pc' = "Embedding"
                 /\ result' = result
            ELSE /\ pc' = "Failed"
                 /\ result' = Unexpected
                 /\ UNCHANGED <<store, uploaded_count, vectors_batch, i>>
    /\ UNCHANGED <<chunker, adapter, create_requests, env, scraped_pages, all_chunks, remote_indexes>>

\* (mutant: a failed upload is ignored and the loop goes on)
BatchUpload_swallowing ==
    /\ pc = "Upload"
    /\ \E ok \in BOOLEAN :
         /\ calls' = Append(calls, Call("upsert", batch_indices(vectors_batch), ok, FALSE))
         /\ store' = IF ok THEN upsert(store, vectors_batch) ELSE store
         /\ uploaded_count' =
              IF ok THEN count_uploaded(uploaded_count, vectors_batch)
              ELSE uploaded_count
         /\ vectors_batch' = <<>>
         /\ i' = i + 1
         /\ pc' = "Embedding"
         /\ result' = result
    /\ UNCHANGED <<chunker, adapter, create_requests, env, scraped_pages, all_chunks, remote_indexes>>

\* main.py 311-314: the upload of a full batch, inside the loop
BatchUpload ==
    /\ pc = "Upload"
    /\ \E ok \in BOOLEAN :
         /\ calls' = Append(calls, Call("upsert", batch_indices(vectors_batch), ok, FALSE))
         /\ IF ok
            THEN /\ store' = upsert(store, vectors_batch)
                 /\ uploaded_count' = count_uploaded(uploaded_count, vectors_batch)
                 /\ vectors_batch' = <<>>
                 /\ i' = i + 1
                 /\ pc' = "Embedding"
                 /\ result' = result
            ELSE /\ pc' = "Failed"
                 /\ result' = Unexpected
                 /\ UNCHANGED <<store, uploaded_count, vectors_batch, i>>
    /\ UNCHANGED <<chunker, adapter, create_requests, env, scraped_pages, all_chunks, remote_indexes>>

\* (mutant: the remaining batch is uploaded without the test that it holds
\* records)
UploadRemaining_unguarded ==
    /\ pc = "Embedding"
    /\ i = Len(all_chunks)
    /\ \E ok \in BOOLEAN :
         /\ calls' = Append(calls, Call("upsert", batch_indices(vectors_batch), ok, FALSE))
         /\ IF ok
            THEN /\ store' = upsert(store, vectors_batch)
                 /\ uploaded_count' = count_uploaded(uploaded_count, vectors_batch)
                 /\ pc' = "Done"
                 /\ result' = Outcome("Success", 200, <<>>, uploaded_count',
                                      Len(all_chunks), Len(scraped_pages))
            ELSE /\ pc' = "Failed"
                 /\ result' = Unexpected
                 /\ UNCHANGED <<store, uploaded_count>>
    /\ UNCHANGED <<chunker, adapter, create_requests, env, scraped_pages, all_chunks, i, vectors_batch,
                   remote_indexes>>

\* main.py 316-325: upload of the remaining batch and the final result
UploadRemaining ==
    /\ pc = "Embedding"
    /\ i = Len(all_chunks)
    /\ IF vectors_batch # <<>>
       THEN \E ok \in BOOLEAN :
              /\ calls' = Append(calls, Call("upsert", batch_indices(vectors_batch), ok, FALSE))
              /\ IF ok
                 THEN /\ store' = upsert(store, vectors_batch)
                      /\ uploaded_count' = count_uploaded(uploaded_count, vectors_batch)
                      /\ pc' = "Done"
                      /\ result' = Outcome("Success", 200, <<>>, uploaded_count',
                                           Len(all_chunks), Len(scraped_pages))
                 ELSE /\ pc' = "Failed"
                      /\ result' = Unexpected
                      /\ UNCHANGED <<store, uploaded_count>>
       ELSE /\ pc' = "Done"
            /\ result' = Outcome("Success", 200, <<>>, uploaded_count,
                                 Len(all_chunks), Len(scraped_pages))
            /\ UNCHANGED <<calls, store, uploaded_count>>
    /\ UNCHANGED <<chunker, adapter, create_requests, env, scraped_pages, all_chunks, i, vectors_batch,
                   remote_indexes>>

\* The next request to the same deployed function: the module-level
\* configuration and the remote index stay, the locals start afresh.
NewRequest ==
    /\ pc \in {"Done", "Failed"}
    /\ pc' = "Idle"
    /\ scraped_pages' = <<>>
    /\ all_chunks' = <<>>
    /\ i' = 0
    /\ vectors_batch' = <<>>
    /\ uploaded_count' = 0
    /\ result' = NoResult
    /\ calls' = <<>>
    /\ UNCHANGED <<chunker, adapter, create_requests, env, remote_indexes, store>>

Run ==
    \/ Validate
    \/ Scrape
    \/ Chunk
    \/ InitClients
    \/ CheckIndex
    \/ CreateIndex
    \/ EmbedChunk
    \/ BatchUpload
    \/ UploadRemaining

\* One request
Next == Run
Spec == Init /\ [][Next]_vars

\* Requests one after another, to a deployment whose configuration passes
\* the validation
InitRerun ==
    /\ Init
    /\ missing_keys(env) = <<>>
    /\ env.TARGET_URL = URL_HTTPS
NextRerun == Run \/ NewRequest
SpecRerun == InitRerun /\ [][NextRerun]_vars

(***************************************************************************)
(* chunk_text on its own, one loop iteration at a time                     *)
(***************************************************************************)
MaxTextLen == 4
MaxChunkSize == 3
MaxSteps == 6

\* The pipeline at rest, while a function is run on its own
PipelineIdle ==
    /\ env = [TARGET_URL |-> URL_HTTPS, PINECONE_API_KEY |-> "key",
              GEMINI_API_KEY |-> "key", FIRECRAWL_API_KEY |-> "key",
              CRAWL_MODE |-> "single"]
    /\ pc = "Idle"
    /\ scraped_pages = <<>>
    /\ all_chunks = <<>>
    /\ i = 0
    /\ vectors_batch = <<>>
    /\ uploaded_count = 0
    /\ result = NoResult
    /\ calls = <<>>
    /\ remote_indexes = {"other"}
    /\ store = {}
    /\ create_requests = <<>>

pipeline_vars ==
    <<env, pc, scraped_pages, all_chunks, i, vectors_batch, uploaded_count,
      result, calls, remote_indexes, store, create_requests>>

Chars == {"a", "b", " "}
ShortTexts == UNION {[1..n -> Chars] : n \in 0..MaxTextLen}

\* 2200 characters, none of them whitespace
Letters == <<"a", "b", "c", "d", "e", "f", "g">>
Text2200 == [k \in 1..2200 |-> Letters[(k % 7) + 1]]

\* A call chunk_text(text, chunk_size, overlap): arg is the text passed,
\* text the local of that name
ChunkCall(text, chunk_size, overlap) ==
    [pc |-> "called", arg |-> text, text |-> text, chunk_size |-> chunk_size,
     overlap |-> overlap, start |-> 0, chunks |-> <<>>, steps |-> 0]

\* Calls with any overlap, below or not below the chunk size, and the call
\* the pipeline makes on 2200 characters
ChunkCalls ==
    {ChunkCall(t, cs, ov) :
        t \in ShortTexts, cs \in 1..MaxChunkSize, ov \in 0..(MaxChunkSize + 1)}
    \cup {ChunkCall(Text2200, 1000, 50)}

InitChunk ==
    /\ PipelineIdle
    /\ adapter = AdapterIdle
    /\ chunker \in ChunkCalls

\* main.py 30-35
ChunkEnter ==
    /\ chunker.pc = "called"
    /\ IF chunker.text = <<>> \/ strip(chunker.text) = <<>>
       THEN chunker' = [chunker EXCEPT !.pc = "returned", !.chunks = <<>>]
       ELSE chunker' = [chunker EXCEPT !.pc = "loop",
                                       !.text = strip(chunker.text),
                                       !.chunks = <<>>,
                                       !.start = 0]
    /\ UNCHANGED <<pipeline_vars, adapter>>

\* main.py 37-44: one iteration of the while loop
ChunkStep ==
    /\ chunker.pc = "loop"
    /\ chunker.start < Len(chunker.text)
    /\ chunker.steps < MaxSteps
    /\ LET end == chunker.start + chunker.chunk_size
           chunk == strip(Slice(chunker.text, chunker.start, end))
       IN  chunker' =
             [chunker EXCEPT
                !.chunks = IF chunk # <<>> THEN Append(@, chunk) ELSE @,
                !.start = next_start(@, chunker.chunk_size, chunker.overlap),
                !.steps = @ + 1]
    /\ UNCHANGED <<pipeline_vars, adapter>>

\* main.py 37, 46: the loop condition fails, the chunks are returned
ChunkReturn ==
    /\ chunker.pc = "loop"
    /\ ~(chunker.start < Len(chunker.text))
    /\ chunker' = [chunker EXCEPT !.pc = "returned"]
    /\ UNCHANGED <<pipeline_vars, adapter>>

NextChunk == ChunkEnter \/ ChunkStep \/ ChunkReturn
SpecChunk == InitChunk /\ [][NextChunk]_vars

(***************************************************************************)
(* generate_embedding on its own, one step at a time                       *)
(***************************************************************************)
\* The shapes of a response: each of the three places may be absent,
\* present without a vector, or hold a vector; the vectors of the three
\* places differ in their entries
AttrEmbeddingShapes ==
    {NoAttrEmbedding, [has |-> TRUE, val |-> None],
     [has |-> TRUE, val |-> Some(Vec(768, 1))],
     [has |-> TRUE, val |-> Some(Vec(512, 1))]}
AttrEmbeddingsShapes ==
    {NoAttrEmbeddings, [has |-> TRUE, list |-> <<>>],
     [has |-> TRUE, list |-> <<Emb(TRUE, Vec(768, 2))>>],
     [has |-> TRUE, list |-> <<Emb(FALSE, Vec(768, 2)), Emb(FALSE, Vec(768, 1))>>]}
DictShapes ==
    {NoDict,
     [is_dict |-> TRUE, has_embedding |-> FALSE, embedding |-> <<>>,
      has_embeddings |-> FALSE, embeddings |-> <<>>],
     [is_dict |-> TRUE, has_embedding |-> TRUE, embedding |-> Vec(768, 3),
      has_embeddings |-> FALSE, embeddings |-> <<>>],
     [is_dict |-> TRUE, has_embedding |-> FALSE, embedding |-> <<>>,
      has_embeddings |-> TRUE, embeddings |-> <<>>],
     [is_dict |-> TRUE, has_embedding |-> FALSE, embedding |-> <<>>,
      has_embeddings |-> TRUE, embeddings |-> <<Vec(768, 3)>>],
     [is_dict |-> TRUE, has_embedding |-> TRUE, embedding |-> Vec(768, 3),
      has_embeddings |-> TRUE, embeddings |-> <<Vec(768, 4)>>]}
ResponseShapes ==
    {Body(e, es, d) :
        e \in AttrEmbeddingShapes, es \in AttrEmbeddingsShapes, d \in DictShapes}

AdapterCalls ==
    {[pc |-> "called", svc |-> svc, vector |-> None, why |-> "", result |-> None] :
        svc \in {Service("ok", "ok", b) : b \in ResponseShapes}
                 \cup {Service("TypeError", "ok", b) : b \in ResponseShapes}
                 \cup {Service("Error", "ok", BodyOther),
                       Service("TypeError", "Error", BodyOther)}}

InitEmbed ==
    /\ PipelineIdle
    /\ chunker = ChunkerIdle
    /\ adapter \in AdapterCalls

\* main.py 123-127 (and 194-198): the call that passes output_dimensionality
AdapterRequest ==
    /\ adapter.pc = "called"
    /\ adapter' =
         CASE adapter.svc.first = "Error" ->
                 [adapter EXCEPT !.pc = "returned", !.why = "request"]
           [] adapter.svc.first = "TypeError" -> [adapter EXCEPT !.pc = "retry"]
           [] OTHER -> [adapter EXCEPT !.pc = "extract"]
    /\ UNCHANGED <<pipeline_vars, chunker>>

\* main.py 128-136 (and 194-198): the call without output_dimensionality
AdapterRetry ==
    /\ adapter.pc = "retry"
    /\ adapter' =
         IF adapter.svc.second = "Error"
         THEN [adapter EXCEPT !.pc = "returned", !.why = "request"]
         ELSE [adapter EXCEPT !.pc = "extract"]
    /\ UNCHANGED <<pipeline_vars, chunker>>

\* main.py 138-172: the extraction, and the return of None without a vector
AdapterExtract ==
    /\ adapter.pc = "extract"
    /\ LET vector == extract_vector(adapter.svc.body)
       IN  adapter' =
             IF ~vector.some
             THEN [adapter EXCEPT !.pc = "returned", !.why = "extraction",
                                  !.vector = vector]
             ELSE [adapter EXCEPT !.pc = "check", !.vector = vector]
    /\ UNCHANGED <<pipeline_vars, chunker>>

\* main.py 174-192: the dimension check and the return
AdapterCheck ==
    /\ adapter.pc = "check"
    /\ LET checked == check_dimension(adapter.vector.val)
       IN  adapter' = [adapter EXCEPT !.pc = "returned",
                                      !.why = IF checked.some THEN "ok" ELSE "dimension",
                                      !.result = checked]
    /\ UNCHANGED <<pipeline_vars, chunker>>

NextEmbed == AdapterRequest \/ AdapterRetry \/ AdapterExtract \/ AdapterCheck
SpecEmbed == InitEmbed /\ [][NextEmbed]_vars

(***************************************************************************)
(* Properties                                                              *)
(***************************************************************************)
Range(seq) == {seq[k] : k \in 1..Len(seq)}
CallsOf(op) == SelectSeq(calls, LAMBDA c : c.op = op)
Ceil(n, d) == (n + d - 1) \div d

Credentials ==
    {env.PINECONE_API_KEY, env.GEMINI_API_KEY, env.FIRECRAWL_API_KEY}
CredentialMissing == \E v \in Credentials : v \in {"None", ""}
HasPrefix(s, p) == Len(p) <= Len(s) /\ \A k \in 1..Len(p) : s[k] = p[k]
UrlMalformed ==
    /\ ~HasPrefix(env.TARGET_URL, <<"h", "t", "t", "p", ":", "/", "/">>)
    /\ ~HasPrefix(env.TARGET_URL, <<"h", "t", "t", "p", "s", ":", "/", "/">>)

\* C1: once ingest_data has run with one of the three credentials missing
\* (unset or empty), it has returned status 500 and no call to an external
\* service has been made.
C1_MissingCredential ==
    (CredentialMissing /\ pc # "Idle") =>
        /\ pc = "Failed"
        /\ result.status = 500
        /\ result.kind = "Missing Environment Variables"
        /\ calls = <<>>

C1_Witness ==
    /\ pc = "Failed"
    /\ env.PINECONE_API_KEY = "key"
    /\ env.GEMINI_API_KEY = ""
    /\ env.FIRECRAWL_API_KEY = "key"
    /\ result.missing = <<"GEMINI_API_KEY">>
    /\ result.status = 500

\* C2: with every credential present and a TARGET_URL that starts with
\* neither http:// nor https://, ingest_data ends in Failed with status 400
\* and no call to an external service has been made.
C2_MalformedUrl ==
    (~CredentialMissing /\ UrlMalformed /\ pc # "Idle") =>
        /\ pc = "Failed"
        /\ result.status = 400
        /\ calls = <<>>

C2_Witness ==
    /\ pc = "Failed"
    /\ ~CredentialMissing
    /\ env.TARGET_URL = URL_NO_SLASHES
    /\ result.status = 400

\* C3: when the scrape has been called and yielded no page (an empty
\* result or an error inside the call), the run has returned status 500
\* with the scrape-error message, no chunk exists and the scrape is the
\* only call made.
C3_ScrapeNoPages ==
    (calls # <<>> /\ scraped_pages = <<>>) =>
        /\ pc = "Failed"
        /\ result.status = 500
        /\ result.kind = "Failed to scrape content with Firecrawl"
        /\ all_chunks = <<>>
        /\ vectors_batch = <<>>
        /\ Len(calls) = 1
        /\ calls[1].op = "scrape"

C3_Witness ==
    /\ pc = "Failed"
    /\ Len(calls) = 1
    /\ calls[1].op = "scrape"
    /\ calls[1].ok
    /\ scraped_pages = <<>>
    /\ result.status = 500

\* C4: when the scrape returned at least one page and chunking every page
\* gave no chunk, the run has ended with status 200 (zero-chunks outcome)
\* and the scrape is the only call made: no index listing or creation, no
\* embedding, no upsert.
C4_ZeroChunks ==
    (scraped_pages # <<>> /\ pc # "Chunking" /\ all_chunks = <<>>) =>
        /\ pc = "Done"
        /\ result.status = 200
        /\ result.kind = "No text found for processing"
        /\ Len(calls) = 1
        /\ calls[1].op = "scrape"
        /\ store = {}

C4_Witness ==
    /\ pc = "Done"
    /\ Len(scraped_pages) >= 1
    /\ \A k \in 1..Len(scraped_pages) : scraped_pages[k].content = TEXT_WS
    /\ all_chunks = <<>>
    /\ result.status = 200

\* C5: a finished run over N >= 1 chunks in which no call but embeddings
\* failed (the embedder failed on any k of the chunks) has embedded every
\* chunk once, in order, and returned status 200 with uploaded = N - k and
\* total = N.
EmbedFailures == Len(SelectSeq(calls, LAMBDA c : c.op = "embed" /\ ~c.ok))
OnlyEmbeddingsFailed == \A c \in Range(calls) : c.op # "embed" => c.ok
C5_PartialEmbeddingFailure ==
    (pc \in {"Done", "Failed"} /\ all_chunks # <<>> /\ OnlyEmbeddingsFailed) =>
        /\ pc = "Done"
        /\ Len(CallsOf("embed")) = Len(all_chunks)
        /\ \A k \in 1..Len(all_chunks) : CallsOf("embed")[k].idx = <<k - 1>>
        /\ result.status = 200
        /\ result.kind = "Success"
        /\ result.uploaded = Len(all_chunks) - EmbedFailures
        /\ result.total = Len(all_chunks)

\* the scenario of the specification: chunk 1 of 3 fails
C5_Witness ==
    /\ pc = "Done"
    /\ Len(all_chunks) = 3
    /\ Len(CallsOf("embed")) = 3
    /\ CallsOf("embed")[1].ok
    /\ ~CallsOf("embed")[2].ok
    /\ CallsOf("embed")[3].ok
    /\ result.uploaded = 2
    /\ result.total = 3
    /\ result.status = 200

Last(seq) == seq[Len(seq)]
ConfigOrScrapeError ==
    result.kind \in {"Missing Environment Variables", "Invalid URL format",
                     "Failed to scrape content with Firecrawl"}
SetupCalls == {"clients", "list_indexes", "create_index"}

\* C6 as claimed: a run ends in Failed only because of a configuration or
\* scrape-level error; a failed batch upsert does not make it end in Failed
\* (runs in which the client construction or the index listing or creation
\* failed are left aside).
C6_FailedOnlyConfigOrScrape ==
    (pc = "Failed" /\ \A c \in Range(calls) : c.op \in SetupCalls => c.ok) =>
        ConfigOrScrapeError

\* C6 as amended: a run ends in Failed (status other than 200) only because
\* of a configuration error, a scrape-level error, or a failed call to the
\* client construction, the index listing, the index creation or a batch
\* upsert, which ends the run at once with status 500; a failed embedding
\* is never the call a run fails on.
C6_FailedCauses ==
    /\ pc = "Failed" =>
         /\ result.status \in {400, 500}
         /\ \/ ConfigOrScrapeError
            \/ /\ result = Unexpected
               /\ calls # <<>>
               /\ Last(calls).op \in SetupCalls \cup {"upsert"}
               /\ ~Last(calls).ok
    /\ \A k \in 1..Len(calls) :
         (calls[k].op \in SetupCalls \cup {"upsert"} /\ ~calls[k].ok) =>
             /\ k = Len(calls)
             /\ pc = "Failed"
             /\ result.status = 500

\* chunk 0 skipped, chunks 1 and 2 embedded, their upsert fails
C6_Witness ==
    /\ pc = "Failed"
    /\ result.status = 500
    /\ calls # <<>>
    /\ Last(calls).op = "upsert"
    /\ ~Last(calls).ok
    /\ Last(calls).idx = <<1, 2>>
    /\ EmbedFailures = 1

\* C7 as claimed: a finished run over N chunks with batch size B has made
\* exactly ceil(N/B) upsert calls.
C7_CeilOfAllChunks ==
    (pc = "Done" /\ all_chunks # <<>>) =>
        Len(CallsOf("upsert")) = Ceil(Len(all_chunks), BATCH_SIZE)

\* C7 as amended: a finished run in which M of the N chunks were embedded
\* has made exactly ceil(M/B) upsert calls (ceil(N/B) when no embedding
\* failed).
C7_CeilOfEmbeddedChunks ==
    (pc = "Done" /\ all_chunks # <<>>) =>
        Len(CallsOf("upsert")) =
            Ceil(Len(all_chunks) - EmbedFailures, BATCH_SIZE)

C7_Witness ==
    /\ pc = "Done"
    /\ Len(all_chunks) = 3
    /\ EmbedFailures = 0
    /\ Len(CallsOf("upsert")) = 2
    /\ Len(CallsOf("upsert")[1].idx) = BATCH_SIZE
    /\ Len(CallsOf("upsert")[2].idx) = 1

RECURSIVE Flatten(_)
Flatten(seqs) == IF seqs = <<>> THEN <<>> ELSE Head(seqs) \o Flatten(Tail(seqs))
UpsertedIndices ==
    Flatten([k \in 1..Len(CallsOf("upsert")) |-> CallsOf("upsert")[k].idx])
EmbeddedIndices ==
    LET done == SelectSeq(calls, LAMBDA c : c.op = "embed" /\ c.ok)
    IN  Flatten([k \in 1..Len(done) |-> done[k].idx])

\* C8: every upsert call carries at most BATCH_SIZE records; when the run
\* is Done, the chunks sent in the upsert calls are exactly the chunks
\* whose embedding succeeded, each once and in order, and their number is
\* the uploaded count reported.
C8_BatchesCoverEmbedded ==
    /\ \A c \in Range(calls) : c.op = "upsert" => Len(c.idx) <= BATCH_SIZE
    /\ (pc = "Done" /\ all_chunks # <<>>) =>
         /\ UpsertedIndices = EmbeddedIndices
         /\ result.uploaded = Len(EmbeddedIndices)
         /\ uploaded_count = Len(UpsertedIndices)

C8_Witness ==
    /\ pc = "Done"
    /\ Len(all_chunks) = 3
    /\ EmbedFailures = 0
    /\ UpsertedIndices = <<0, 1, 2>>
    /\ Len(CallsOf("upsert")) = 2
    /\ result.uploaded = 3

ChunkIndices(records) == {r.metadata.chunk_index : r \in records}

C10_IdempotentIds ==
    /\ \A r1, r2 \in store \cup Range(vectors_batch) :
         r1.metadata.chunk_index = r2.metadata.chunk_index => r1.id = r2.id
    /\ Cardinality(store) = Cardinality(ChunkIndices(store))

\* a later run, two of its three chunks uploaded again, over an index that
\* holds the third from an earlier run
C10_Witness ==
    /\ pc = "Embedding"
    /\ Len(all_chunks) = 3
    /\ i = 2
    /\ uploaded_count = 2
    /\ vectors_batch = <<>>
    /\ ChunkIndices(store) = {0, 1, 2}
    /\ Cardinality(store) = 3

\* The collaborator calls whose exception ingest_data does not handle next
\* to the call: client construction, index listing, index creation, upsert
RaisingOps == {"clients", "list_indexes", "create_index", "upsert"}
Statuses == {200, 400, 500}
Returned == result.kind # "none"

\* C11: whichever collaborator call fails, the run ends with a response
\* whose status is 200, 400 or 500 and no exception leaves ingest_data: a
\* run is at an end only with a response, a failed scrape or embedding is
\* answered or skipped by the code next to it, and a failure of any other
\* call ends the run with the 500 "Unexpected error" response.
C11_ErrorsAreResponses ==
    /\ Returned <=> pc \in {"Done", "Failed"}
    /\ Returned => result.status \in Statuses
    /\ ~ENABLED Next => Returned
    /\ \A k \in 1..Len(calls) :
         ~calls[k].ok =>
            CASE calls[k].op \in RaisingOps ->
                    /\ k = Len(calls)
                    /\ pc = "Failed"
                    /\ result.kind = "Unexpected error"
                    /\ result.status = 500
              [] calls[k].op = "scrape" ->
                    /\ k = Len(calls)
                    /\ pc = "Failed"
                    /\ result.status = 500
              [] calls[k].op = "embed" ->
                    (Returned /\ k = Len(calls)) => result.status \in Statuses
              [] OTHER -> FALSE

\* the index creation raises
C11_Witness ==
    /\ calls # <<>>
    /\ Last(calls) = Call("create_index", <<>>, FALSE, FALSE)
    /\ pc = "Failed"
    /\ result.status = 500

ParametersValid ==
    0 <= chunker.overlap /\ chunker.overlap < chunker.chunk_size
Trimmed(s) ==
    LET keep == {k \in 1..Len(s) : s[k] \notin {" ", "\n"}}
    IN  IF keep = {} THEN <<>>
        ELSE SubSeq(s, CHOOSE k \in keep : \A j \in keep : k <= j,
                       CHOOSE k \in keep : \A j \in keep : j <= k)

\* C12: a call of the chunker on non-empty text with overlap >= chunk_size
\* is rejected and never runs the loop, and the loop of every call ends: it
\* makes no more iterations than the trimmed text has characters.
C12_InvalidOverlapRejected ==
    /\ (/\ chunker.pc \notin {"idle", "called"}
        /\ chunker.overlap >= chunker.chunk_size
        /\ Trimmed(chunker.arg) # <<>>)
       => chunker.pc = "rejected"
    /\ chunker.steps <= Len(Trimmed(chunker.arg))

\* The chunks as the claim puts them together: the first one whole, each
\* later one without its first `overlap` characters
NonOverlapping(chunks, overlap) ==
    Flatten([k \in 1..Len(chunks) |->
                IF k = 1 THEN chunks[k]
                ELSE SubSeq(chunks[k], overlap + 1, Len(chunks[k]))])
\* The offsets 0, s, 2s, ... below the length of t
Offsets(t, stride) == {o \in 0..Len(t) : o < Len(t) /\ o % stride = 0}
\* No window of t begins or ends with a whitespace character
WindowsUntrimmed(t, chunk_size, overlap) ==
    \A o \in Offsets(t, chunk_size - overlap) :
        /\ t[o + 1] \notin {" ", "\n"}
        /\ t[IF o + chunk_size < Len(t) THEN o + chunk_size ELSE Len(t)]
              \notin {" ", "\n"}
ChunksWithin ==
    \A k \in 1..Len(chunker.chunks) :
        /\ Len(chunker.chunks[k]) >= 1
        /\ Len(chunker.chunks[k]) <= chunker.chunk_size

\* C13 as stated: for valid parameters every chunk is at most chunk_size
\* long and the non-overlapping portions of the chunks, put together, are
\* the trimmed text.
C13_ReconstructsAlways ==
    (chunker.pc = "returned" /\ ParametersValid) =>
        /\ ChunksWithin
        /\ NonOverlapping(chunker.chunks, chunker.overlap) = Trimmed(chunker.arg)

\* C13 (amended): for valid parameters every chunk is non-empty and at most
\* chunk_size long; the non-overlapping portions of the chunks, put
\* together, are the trimmed text whenever no window of the trimmed text
\* begins or ends with whitespace (each window is trimmed before it is
\* kept, so whitespace at a window's edge is lost).
C13_ReconstructsUntrimmedWindows ==
    (chunker.pc = "returned" /\ ParametersValid) =>
        /\ ChunksWithin
        /\ WindowsUntrimmed(Trimmed(chunker.arg), chunker.chunk_size, chunker.overlap)
             => NonOverlapping(chunker.chunks, chunker.overlap) = Trimmed(chunker.arg)

\* two overlapping windows, with whitespace inside the first one
C13_Witness ==
    /\ chunker.pc = "returned"
    /\ chunker.arg = <<"a", " ", "b", "a">>
    /\ chunker.chunk_size = 3
    /\ chunker.overlap = 1
    /\ chunker.chunks = <<<<"a", " ", "b">>, <<"b", "a">>>>
    /\ WindowsUntrimmed(Trimmed(chunker.arg), chunker.chunk_size, chunker.overlap)

\* The reference result of the claim: the windows of the trimmed text at
\* the offsets 0, s, 2s, ..., each trimmed, the non-empty ones in order
ReferenceChunks(text, chunk_size, overlap) ==
    LET t == Trimmed(text)
        stride == chunk_size - overlap
        window(k) ==
            LET o == (k - 1) * stride
            IN  Trimmed(SubSeq(t, o + 1,
                               IF o + chunk_size < Len(t) THEN o + chunk_size
                               ELSE Len(t)))
    IN  SelectSeq([k \in 1..Ceil(Len(t), stride) |-> window(k)],
                  LAMBDA w : w # <<>>)

\* C14: for valid parameters the chunker returns the reference result, and
\* the pipeline's operator chunk_text computes the same; blank text gives
\* no chunk, every chunk is non-empty and trimmed, and 2200 characters that
\* are not whitespace, with chunk_size 1000 and overlap 50, give the three
\* chunks that start at the offsets 0, 950 and 1900.
C14_EqualsReference ==
    (chunker.pc = "returned" /\ ParametersValid) =>
        /\ chunker.chunks =
             ReferenceChunks(chunker.arg, chunker.chunk_size, chunker.overlap)
        /\ chunker.chunks =
             chunk_text(chunker.arg, chunker.chunk_size, chunker.overlap)
        /\ Trimmed(chunker.arg) = <<>> => chunker.chunks = <<>>
        /\ \A k \in 1..Len(chunker.chunks) :
             /\ chunker.chunks[k] # <<>>
             /\ Trimmed(chunker.chunks[k]) = chunker.chunks[k]
        /\ (chunker.arg = Text2200 /\ chunker.chunk_size = 1000
                /\ chunker.overlap = 50)
             => chunker.chunks = <<SubSeq(Text2200, 1, 1000),
                                   SubSeq(Text2200, 951, 1950),
                                   SubSeq(Text2200, 1901, 2200)>>

\* the call on 2200 characters has returned
C14_Witness ==
    /\ chunker.pc = "returned"
    /\ chunker.arg = Text2200
    /\ chunker.chunk_size = 1000
    /\ chunker.overlap = 50
    /\ Len(chunker.chunks) = 3
    /\ chunker.steps = 3

\* What each extraction path of the claim holds in a response: a vector or
\* nothing
PathDirect(response) ==
    IF response.attr_embedding.has /\ response.attr_embedding.val.some
    THEN response.attr_embedding.val ELSE None
PathList(response) ==
    IF response.attr_embeddings.has /\ response.attr_embeddings.list # <<>>
    THEN Some(response.attr_embeddings.list[1].values) ELSE None
PathKeyed(response) ==
    IF response.dict.is_dict /\ response.dict.has_embedding
    THEN Some(response.dict.embedding)
    ELSE IF response.dict.is_dict /\ response.dict.has_embeddings
            /\ response.dict.embeddings # <<>>
    THEN Some(response.dict.embeddings[1]) ELSE None
FirstYielding(response) ==
    IF PathDirect(response).some THEN PathDirect(response)
    ELSE IF PathList(response).some THEN PathList(response)
    ELSE PathKeyed(response)
Extracted == adapter.pc = "check" \/ adapter.why \in {"extraction", "dimension", "ok"}

\* C15: whatever the shape of the response, the vector the adapter extracts
\* is that of the first of the paths (direct field, first element of the
\* list, keyed value) that holds one, and the extraction fails only when no
\* path holds a vector.
C15_FirstYieldingPathUsed ==
    Extracted =>
        /\ adapter.vector = FirstYielding(adapter.svc.body)
        /\ adapter.why = "extraction" =>
              /\ ~PathDirect(adapter.svc.body).some
              /\ ~PathList(adapter.svc.body).some
              /\ ~PathKeyed(adapter.svc.body).some

\* The positions in the call log of the calls of an operation
PositionsOf(op) == {k \in 1..Len(calls) : calls[k].op = op}
InEmbeddingPhase ==
    \/ pc \in {"Embedding", "Upload"}
    \/ PositionsOf("embed") # {}
    \/ PositionsOf("upsert") # {}
ListedOnceFirst ==
    InEmbeddingPhase =>
        /\ Cardinality(PositionsOf("list_indexes")) = 1
        /\ \A l \in PositionsOf("list_indexes") :
             /\ calls[l].ok
             /\ \A k \in PositionsOf("embed") \cup PositionsOf("upsert") : l < k
             /\ \A k \in PositionsOf("create_index") : k = l + 1
CreatedAtMostOnce ==
    /\ Cardinality(PositionsOf("create_index")) <= 1
    /\ Len(create_requests) <= 1
    /\ Len(create_requests) = Len(SelectSeq(CallsOf("create_index"), LAMBDA c : c.ok))
    /\ \A k \in 1..Len(create_requests) :
         /\ create_requests[k].name = INDEX_NAME
         /\ create_requests[k].dimension = EMBEDDING_DIMENSION
         /\ create_requests[k].metric = "cosine"
\* What follows the listing: a create call exactly when the listing lacks
\* the index's name
CreatedWhenAbsent ==
    /\ (pc = "CheckIndex" /\ pc' = "CreateIndex") =>
            (INDEX_NAME \notin remote_indexes /\ Last(calls').op = "list_indexes")
    /\ (pc = "CheckIndex" /\ pc' = "Embedding") =>
            (INDEX_NAME \in remote_indexes /\ PositionsOf("create_index") = {})
    /\ pc' = "CreateIndex" => pc = "CheckIndex"
    /\ pc = "CreateIndex" =>
            /\ Len(CallsOf("create_index")') = 1
            /\ INDEX_NAME \notin remote_indexes
    /\ pc # "CreateIndex" => CallsOf("create_index")' = CallsOf("create_index")

\* C16: in a run that reaches the embedding and uploading phase the indexes
\* are listed exactly once, before every embedding and upsert call; the
\* index is created at most once, with the configured dimension and the
\* cosine metric, right after the listing and exactly when the listing
\* lacks its name.
C16_IndexEnsuredOnce ==
    /\ [](ListedOnceFirst /\ CreatedAtMostOnce)
    /\ [][CreatedWhenAbsent]_vars

\* the index was absent and has been created; the loop is about to start
C16_Witness ==
    /\ pc = "Embedding"
    /\ i = 0
    /\ Len(calls) = 5
    /\ calls[3] = Call("list_indexes", <<>>, TRUE, FALSE)
    /\ calls[4] = Call("create_index", <<>>, TRUE, FALSE)
    /\ create_requests = <<create_index_request>>

\* The chunks of the pages in page order, each with its page's URL
TaggedChunks ==
    Flatten([p \in 1..Len(scraped_pages) |->
        LET texts == chunk_text(scraped_pages[p].content, CHUNK_SIZE, CHUNK_OVERLAP)
        IN  [k \in 1..Len(texts) |->
                [text |-> texts[k], source |-> scraped_pages[p].url]]])
StrictlyIncreasing(seq) == \A k \in 1..(Len(seq) - 1) : seq[k] < seq[k + 1]
\* The record carries the id, the index and the page of chunk number
\* chunk_index of the run
RecordOfItsChunk(r) ==
    LET k == r.metadata.chunk_index
    IN  /\ k \in 0..(Len(all_chunks) - 1)
        /\ r.id = <<SubSeq(md5_hexdigest(env.TARGET_URL), 1, 8), "-chunk-", k>>
        /\ r.metadata.source = all_chunks[k + 1].source
        /\ r.metadata.text = all_chunks[k + 1].text
        /\ \E p \in 1..Len(scraped_pages) : r.metadata.source = scraped_pages[p].url

\* C17: the chunks of a run are those of its pages in page order and, in a
\* page, in source order, so that their positions 0..N-1 are the sequence
\* indices; every record made carries the id "{hash(target_url)}-chunk-{i}"
\* and the index i of its own chunk and the URL of that chunk's page; the
\* records are made and sent in strictly increasing index order, so no two
\* records of a run have one id, whichever chunks were skipped.
C17_GlobalIndices ==
    /\ pc \notin {"Idle", "Scraping", "Chunking"} => all_chunks = TaggedChunks
    /\ \A r \in Range(vectors_batch) \cup store : RecordOfItsChunk(r)
    /\ StrictlyIncreasing(EmbeddedIndices)
    /\ StrictlyIncreasing(UpsertedIndices)
    /\ Range(UpsertedIndices) \cup Range(batch_indices(vectors_batch))
          \subseteq Range(EmbeddedIndices)
    /\ \A j, k \in Range(EmbeddedIndices) :
         unique_id(url_hash_of(env.TARGET_URL), j)
            = unique_id(url_hash_of(env.TARGET_URL), k) => j = k
    /\ \A r, q \in Range(vectors_batch) \cup store : r.id = q.id => r = q
    /\ Cardinality(store) =
         Len(Flatten([k \in 1..Len(SelectSeq(CallsOf("upsert"), LAMBDA c : c.ok)) |->
                        SelectSeq(CallsOf("upsert"), LAMBDA c : c.ok)[k].idx]))

\* two pages with different URLs, three chunks, the second one skipped
C17_Witness ==
    /\ pc = "Done"
    /\ Len(scraped_pages) = 2
    /\ Len(all_chunks) = 3
    /\ all_chunks[1].source # all_chunks[3].source
    /\ UpsertedIndices = <<0, 2>>
    /\ Cardinality(store) = 2

\* C18: between any two consecutive upsert calls of a run there is a delay
\* step.
C18_DelayBetweenUpserts ==
    \A a, b \in PositionsOf("upsert") :
        (a < b /\ \A k \in PositionsOf("upsert") : ~(a < k /\ k < b))
            => \E d \in PositionsOf("sleep") : a < d /\ d < b

FailedUpserts == {k \in PositionsOf("upsert") : ~calls[k].ok}
AcknowledgedIndices ==
    LET acked == SelectSeq(CallsOf("upsert"), LAMBDA c : c.ok)
    IN  Flatten([k \in 1..Len(acked) |-> acked[k].idx])

\* C19: an upsert call that raises is the last call of its run: the run
\* ends there with status 500 and no uploaded count, none of the records of
\* the failed batch is in the store, and the store holds the records of
\* the batches acknowledged before, which are a strict prefix of the
\* records the run made.
C19_FailedUpsertEndsRun ==
    \A f \in FailedUpserts :
        /\ f = Len(calls)
        /\ pc = "Failed"
        /\ result.status = 500
        /\ result.uploaded = 0
        /\ calls[f].idx # <<>>
        /\ \A k \in Range(calls[f].idx) : k \notin ChunkIndices(store)
        /\ ChunkIndices(store) = Range(AcknowledgedIndices)
        /\ Cardinality(store) = Len(AcknowledgedIndices)
        /\ AcknowledgedIndices \o calls[f].idx = EmbeddedIndices
        /\ Len(AcknowledgedIndices) = uploaded_count

\* the first batch is acknowledged, the upload of the second one raises
C19_Witness ==
    /\ FailedUpserts # {}
    /\ pc = "Failed"
    /\ AcknowledgedIndices = <<0, 1>>
    /\ Last(calls).idx = <<2>>
    /\ Cardinality(store) = 2
    /\ result.uploaded = 0

InLoop == pc \in {"Embedding", "Upload"}
Processed == Len(CallsOf("embed"))

\* C20: in the embedding and uploading loop, the chunks processed so far
\* are those uploaded, those in the pending batch and those skipped;
\* uploaded_count is the total size of the acknowledged upsert calls and,
\* in the loop, a multiple of BATCH_SIZE; the pending batch holds fewer
\* than BATCH_SIZE records when an iteration starts and none right after
\* an upload in the loop; no upsert call carries an empty batch; and
\* uploaded_count never exceeds the number of chunks.
C20_LoopAccounting ==
    /\ pc = "Embedding" => Processed = i
    /\ pc = "Upload" => Processed = i + 1
    /\ InLoop =>
         /\ uploaded_count + Len(vectors_batch) + EmbedFailures = Processed
         /\ uploaded_count % BATCH_SIZE = 0
    /\ pc = "Done" /\ all_chunks # <<>> =>
         uploaded_count + EmbedFailures = Len(all_chunks)
    /\ uploaded_count = Len(AcknowledgedIndices)
    /\ pc = "Embedding" => Len(vectors_batch) < BATCH_SIZE
    /\ pc = "Upload" => Len(vectors_batch) = BATCH_SIZE
    /\ (pc = "Embedding" /\ calls # <<>> /\ Last(calls).op = "upsert")
         => vectors_batch = <<>>
    /\ \A k \in PositionsOf("upsert") : calls[k].idx # <<>>
    /\ uploaded_count <= Len(all_chunks)
    /\ Processed <= Len(all_chunks)

\* three chunks processed: one batch uploaded, one chunk skipped
C20_Witness ==
    /\ pc = "Embedding"
    /\ i = 3
    /\ uploaded_count = 2
    /\ vectors_batch = <<>>
    /\ EmbedFailures = 1
    /\ Last(calls).op = "upsert"
====
